---- MODULE Spec2Model ----
(***************************************************************************)
(* Decline-curve analysis chart (InteractiveDCAChart.js) and its numeric   *)
(* helpers (dca-utilities.js), as a state machine.                         *)
(*                                                                         *)
(* Numbers.  A JavaScript number is modelled as a pair <<n, d>> with       *)
(* d >= 0: a finite rational n/d in lowest terms when d > 0, +Infinity as  *)
(* <<1,0>>, -Infinity as <<-1,0>> and NaN as <<0,0>>.  The operators below *)
(* follow IEEE-754 for these special values (x/0, Inf-Inf, comparisons     *)
(* with NaN, Math.max/Math.min propagating NaN).  Rounding error and the   *)
(* sign of zero are not modelled.                                          *)
(*                                                                         *)
(* Execution.  The component runs under React 18 (index.js, createRoot):   *)
(* state set inside a discrete DOM event (mousedown, keydown, keyup) is    *)
(* committed, and the effects re-run, before the next listener of the same *)
(* event is invoked.  Every action below is one DOM event or one prop      *)
(* change together with the effects it triggers.  The D3 effect (lines     *)
(* 366-709) rebinds all listeners with the values of the render it ran in; *)
(* it returns early, leaving the previous listeners in place, when there   *)
(* is no data (line 367).  `rendered` is the closure of the listeners that *)
(* are currently bound.  A d3 drag gesture keeps the listeners that were   *)
(* bound when it started; `gesture` is their closure.                      *)
(***************************************************************************)
EXTENDS Integers, Sequences, FiniteSets, TLC

VARIABLES
    phaseData,      \* props: localHasData and the series of every detected phase
    forecastDays,   \* prop
    phaseParams,    \* useState: phase -> {Qi, b, D}
    autoFitEnabled, \* useState
    activeKey,      \* useState
    activePhase,    \* useState
    dragStartRef,   \* useRef: the drag session
    prevParamsRef,  \* useRef: last auto-fit result
    rendered,       \* closure of the listeners the D3 effect bound last
    gesture,        \* closure of the d3 drag gesture in progress
    press,          \* history: the pointer press in progress
    sessions,       \* history: number of sessions created
    dragged,        \* history: phases on which a session was created since mount
    util,           \* call record of the dca-utilities functions
    fitter,         \* fitDeclineCurve in progress
    view,           \* the render of the derived values and what it emitted
    app             \* App.js: the date slider and the window it applies

vars == <<phaseData, forecastDays, phaseParams, autoFitEnabled, activeKey,
          activePhase, dragStartRef, prevParamsRef, rendered, gesture,
          press, sessions, dragged, util, fitter, view, app>>

chartVars == <<phaseData, forecastDays, phaseParams, autoFitEnabled, activeKey,
               activePhase, dragStartRef, prevParamsRef, rendered, gesture,
               press, sessions, dragged>>

-----------------------------------------------------------------------------
(* Bounds *)

MaxSessions == 1
MaxLen == 3
MaxPairs == 2
MaxDays == 6

-----------------------------------------------------------------------------
(* JavaScript numbers *)

NaN == <<0, 0>>
PInf == <<1, 0>>
NInf == <<-1, 0>>

Abs(x) == IF x < 0 THEN -x ELSE x
Sign(x) == IF x > 0 THEN 1 ELSE IF x < 0 THEN -1 ELSE 0

RECURSIVE GCD(_, _)
GCD(a, b) == IF b = 0 THEN a ELSE GCD(b, a % b)

Norm(n, d) ==
    IF d = 0 THEN <<Sign(n), 0>>
    ELSE LET s == IF d < 0 THEN -1 ELSE 1
             g == GCD(Abs(n), Abs(d))
         IN  <<(s * n) \div g, (s * d) \div g>>

Num(n) == <<n, 1>>
Frac(n, d) == Norm(n, d)

IsNaN(a) == a = NaN

Neg(a) == <<-a[1], a[2]>>

Add(a, b) ==
    IF a[2] = 0 /\ b[2] = 0
    THEN (IF a = b THEN a ELSE NaN)
    ELSE Norm(a[1] * b[2] + b[1] * a[2], a[2] * b[2])

Sub(a, b) == Add(a, Neg(b))

Mul(a, b) == Norm(a[1] * b[1], a[2] * b[2])

Recip(a) ==
    IF a[2] = 0 THEN (IF IsNaN(a) THEN NaN ELSE <<0, 1>>)
    ELSE IF a[1] = 0 THEN PInf
    ELSE IF a[1] > 0 THEN <<a[2], a[1]>>
    ELSE <<-a[2], -a[1]>>

Div(a, b) == Mul(a, Recip(b))

\* r1/d1 < r2/d2 for 0 <= r1 < d1 and 0 <= r2 < d2, by the continued
\* fractions of the two (no product that could pass 2^31)
RECURSIVE LtProper(_, _, _, _)
LtProper(r1, d1, r2, d2) ==
    IF r2 = 0 THEN FALSE
    ELSE IF r1 = 0 THEN TRUE
    ELSE IF d1 \div r1 # d2 \div r2 THEN d2 \div r2 < d1 \div r1
    ELSE LtProper(d2 % r2, r2, d1 % r1, r1)

\* a < b in JavaScript: false when either side is NaN
Lt(a, b) ==
    /\ ~IsNaN(a)
    /\ ~IsNaN(b)
    /\ IF a[2] = 0 \/ b[2] = 0
       THEN (a = NInf /\ b # NInf) \/ (b = PInf /\ a # PInf)
       ELSE LET qa == a[1] \div a[2]
                qb == b[1] \div b[2]
            IN  IF qa # qb THEN qa < qb
                ELSE IF a[2] < 46000 /\ b[2] < 46000
                THEN (a[1] % a[2]) * b[2] < (b[1] % b[2]) * a[2]
                ELSE LtProper(a[1] % a[2], a[2], b[1] % b[2], b[2])

Le(a, b) == ~IsNaN(a) /\ ~IsNaN(b) /\ ~Lt(b, a)

MathMax(a, b) == IF IsNaN(a) \/ IsNaN(b) THEN NaN ELSE IF Lt(a, b) THEN b ELSE a
MathMin(a, b) == IF IsNaN(a) \/ IsNaN(b) THEN NaN ELSE IF Lt(b, a) THEN b ELSE a

ISqrt(m) == CHOOSE r \in 0..m : r * r <= m /\ m < (r + 1) * (r + 1)

\* x ** 0.5: exact on squares of rationals, truncated to a multiple of 1/d otherwise
PowHalf(a) ==
    IF IsNaN(a) THEN NaN
    ELSE IF a[2] = 0 THEN PInf
    ELSE IF a[1] < 0 THEN NaN
    ELSE Norm(ISqrt(a[1] * a[2]), a[2])

\* !x for a number
Falsy(a) == IsNaN(a) \/ a = <<0, 1>>

\* JSON.stringify of a number: NaN and the infinities all print as null,
\* which <<0, 0>> stands for here
JsonNum(a) == IF a[2] = 0 THEN <<0, 0>> ELSE a

One == Num(1)
Zero == Num(0)
Half == Frac(1, 2)

-----------------------------------------------------------------------------
(* Math.exp, Math.log and Math.pow.                                        *)
(*                                                                         *)
(* The transcendental functions are evaluated in fixed point, as integer   *)
(* counts of 1/Scale, by range reduction with ln 2 and a truncated series; *)
(* their results are multiples of 1/Scale (or reciprocals of such) that    *)
(* agree with the IEEE-754 result to about three decimals.  The special    *)
(* values follow ECMA-262 (Math.pow(x, 0) = 1, a negative base with a      *)
(* fractional exponent gives NaN, ...).  exp underflows to 0, and its      *)
(* reciprocal overflows to Infinity, below 1/Scale.                        *)

Scale == 100 * 100

\* the first k decimals of r/d for 0 <= r < d, by long division
RECURSIVE Decimals(_, _, _)
Decimals(r, d, k) ==
    IF k = 0 THEN 0
    ELSE ((r * 10) \div d) * (10 ^ (k - 1)) + Decimals((r * 10) % d, d, k - 1)

\* a finite number as a count of 1/Scale, truncated toward zero
ToFx(a) ==
    LET n == Abs(a[1])
    IN  Sign(a[1]) * ((n \div a[2]) * Scale + Decimals(n % a[2], a[2], 4))

FromFx(n) == Norm(n, Scale)

\* a result rounded to the precision of the model
Rnd(a) == IF a[2] = 0 THEN a ELSE FromFx(ToFx(a))

\* a + b of two rounded numbers
AddR(a, b) == IF a[2] = 0 \/ b[2] = 0 THEN Add(a, b) ELSE FromFx(ToFx(a) + ToFx(b))

\* product of two non-negative counts, without leaving 32 bits
MulFx(x, y) == ((x \div 100) * y) \div 100 + ((x % 100) * y) \div Scale

Ln2Fx == ToFx(Frac(6931, 10000))

\* ln x for x >= 1: halve down to [1, 2), then 2 atanh((x-1)/(x+1))
RECURSIVE LnFx(_)
LnFx(x) ==
    IF x >= 2 * Scale THEN Ln2Fx + LnFx(x \div 2)
    ELSE LET u  == ((x - Scale) * Scale) \div (x + Scale)
             u2 == MulFx(u, u)
             u3 == MulFx(u, u2)
             u5 == MulFx(u3, u2)
             u7 == MulFx(u5, u2)
             u9 == MulFx(u7, u2)
         IN  2 * (u + u3 \div 3 + u5 \div 5 + u7 \div 7 + u9 \div 9)

\* exp(-r) for 0 <= r < ln 2: the series 1 - r(1 - r/2 (1 - r/3 (...)))
RECURSIVE ExpSeries(_, _)
ExpSeries(r, k) ==
    IF k > 7 THEN Scale ELSE Scale - MulFx(r, ExpSeries(r, k + 1)) \div k

\* exp(-z) for z >= 0
ExpNegFx(z) ==
    LET n == z \div Ln2Fx
    IN  IF n > 30 THEN 0 ELSE ExpSeries(z % Ln2Fx, 1) \div (2 ^ n)

MathExp(a) ==
    IF IsNaN(a) THEN NaN
    ELSE IF a = PInf THEN PInf
    ELSE IF a = NInf THEN <<0, 1>>
    ELSE IF a[1] <= 0 THEN FromFx(ExpNegFx(ToFx(Neg(a))))
    ELSE Recip(FromFx(ExpNegFx(ToFx(a))))

MathLog(a) ==
    IF IsNaN(a) \/ a[1] < 0 THEN NaN
    ELSE IF a = PInf THEN PInf
    ELSE IF a[1] = 0 THEN NInf
    ELSE IF a[1] >= a[2] THEN FromFx(LnFx(ToFx(a)))
    ELSE Neg(FromFx(LnFx(ToFx(Recip(a)))))

\* x ** 2
Square(x) ==
    IF x[2] = 0 THEN Mul(x, x) ELSE FromFx(MulFx(Abs(ToFx(x)), Abs(ToFx(x))))

MathPow(x, y) ==
    IF y = <<0, 1>> THEN <<1, 1>>
    ELSE IF IsNaN(x) \/ IsNaN(y) THEN NaN
    ELSE IF y[2] = 0
    THEN (IF x[2] # 0 /\ Abs(x[1]) = x[2] THEN NaN
          ELSE IF (x[2] = 0 \/ Abs(x[1]) > x[2]) = (y = PInf) THEN PInf
          ELSE <<0, 1>>)
    ELSE IF y = <<1, 1>> THEN x
    ELSE IF y = <<2, 1>> THEN Square(x)
    ELSE IF x[2] = 0
    THEN (IF y[1] < 0 THEN <<0, 1>>
          ELSE IF x = PInf \/ y[2] # 1 \/ y[1] % 2 = 0 THEN PInf
          ELSE NInf)
    ELSE IF x[1] = 0 THEN (IF y[1] > 0 THEN <<0, 1>> ELSE PInf)
    ELSE IF x[1] > 0 THEN MathExp(Mul(y, MathLog(x)))
    ELSE IF y[2] # 1 THEN NaN
    ELSE IF y[1] % 2 = 0 THEN MathExp(Mul(y, MathLog(Neg(x))))
    ELSE Neg(MathExp(Mul(y, MathLog(Neg(x)))))

-----------------------------------------------------------------------------
(* Inputs *)

\* Two of the four phase keys of detectColumns
Phases == {"oil", "gas"}
NoPhase == "none"

\* handleKeyDown accepts d, q and b; "none" is activeKey === null
Keys == {"d", "q", "b"}
NoKey == "none"

\* event.y as the handlers read it, in pixels
PointerYs == {0, 300}

ForecastChoices == {30, 90}

Pt(t, v) == [t |-> Num(t), value |-> v]

NoRows == [rows |-> FALSE, series |-> <<>>]

Both(o, g) == [rows |-> TRUE, series |-> [p \in Phases |-> IF p = "oil" THEN o ELSE g]]

\* What the props can make of phaseData: no row in the date window; one
\* detected phase with two points and a first value below one; two phases,
\* one declining (D = 0.5 before the clamp) and one inclining; an all-zero
\* series beside a detected phase without a valid value
DataSets ==
    { NoRows,
      [rows |-> TRUE,
       series |-> [p \in {"oil"} |-> <<Pt(0, Frac(1, 4)), Pt(30, Frac(1, 4))>>]],
      Both(<<Pt(0, Num(400)), Pt(2, Num(200)), Pt(4, Num(100))>>,
           <<Pt(0, Num(100)), Pt(15, Num(200)), Pt(30, Num(400))>>),
      Both(<<Pt(0, Num(0)), Pt(15, Num(0)), Pt(30, Num(0))>>, <<>>) }

-----------------------------------------------------------------------------
(* InteractiveDCAChart.js: pure parts *)

\* Lines 168-196: the estimate of one phase inside the auto-fit effect.
\* b is the constant 0.5, so the b === 0 branch (line 184) is never taken.
AutoFitPhase(points) ==
    IF Len(points) < 3
    THEN [Qi |-> IF Len(points) = 0 \/ Falsy(points[1].value)
                 THEN Num(100) ELSE points[1].value,
          b |-> Half,
          D |-> Frac(5, 100)]
    ELSE LET first == points[1]
             last == points[Len(points)]
             Qi == first.value
             b == Half
             ratio == Div(last.value, first.value)
             t == Sub(last.t, first.t)
             D == Div(Sub(PowHalf(Div(One, ratio)), One), Mul(b, t))
         IN  [Qi |-> Qi, b |-> b,
              D |-> MathMax(Frac(1, 1000), MathMin(Half, D))]

\* Lines 165-197: newParams, one entry per key of phaseData
AutoFitAll(series) == [p \in DOMAIN series |-> AutoFitPhase(series[p])]

\* JSON.stringify of a parameter map (key order not modelled)
JsonParams(pp) ==
    [p \in DOMAIN pp |->
        [Qi |-> JsonNum(pp[p].Qi), b |-> JsonNum(pp[p].b), D |-> JsonNum(pp[p].D)]]

\* Line 163: the effect does nothing without data or with auto-fit disabled
AutoFitRuns(pd, enabled) == pd.rows /\ enabled

\* Lines 162-204: the auto-fit effect; the pair <<prevParamsRef, phaseParams>> after it
AutoFitEffect(pd, enabled, prev, pp) ==
    IF ~AutoFitRuns(pd, enabled) THEN <<prev, pp>>
    ELSE LET newParams == AutoFitAll(pd.series)
         IN  IF JsonParams(newParams) # JsonParams(prev)
             THEN <<newParams, newParams>>
             ELSE <<prev, pp>>

\* Lines 349-363, with the Math.min of case "b" left out
getAdjustmentForDragNoMin(key, dy, originalValue) ==
    CASE key = "d" ->
            MathMax(Frac(1, 10000), Mul(originalValue, Sub(One, Mul(dy, Frac(5, 10000)))))
      [] key = "q" ->
            MathMax(One, Sub(originalValue, Mul(dy, Half)))
      [] key = "b" ->
            MathMax(Zero, Add(originalValue, Mul(dy, Frac(2, 1000))))
      [] OTHER -> originalValue

\* Lines 349-363
getAdjustmentForDrag(key, dy, originalValue) ==
    CASE key = "d" ->
            MathMax(Frac(1, 10000), Mul(originalValue, Sub(One, Mul(dy, Frac(5, 10000)))))
      [] key = "q" ->
            MathMax(One, Sub(originalValue, Mul(dy, Half)))
      [] key = "b" ->
            MathMax(Zero, MathMin(One, Add(originalValue, Mul(dy, Frac(2, 1000)))))
      [] OTHER -> originalValue

\* Lines 545-565 with each adjustment made to the current value of the
\* parameter instead of the session's
DragUpdateFromCurrent(pp, key, phase, session, eventY) ==
    LET dy == Sub(Num(eventY), Num(session.y))
    IN  IF phase \notin DOMAIN pp THEN pp
        ELSE [pp EXCEPT ![phase] =
                CASE key = "d" -> [@ EXCEPT !.D = getAdjustmentForDrag("d", dy, @)]
                  [] key = "q" -> [@ EXCEPT !.Qi = getAdjustmentForDrag("q", dy, @)]
                  [] key = "b" -> [@ EXCEPT !.b = getAdjustmentForDrag("b", dy, @)]
                  [] OTHER -> @]

\* Lines 545-565 with key "b" adjusting D as well
DragUpdateCombined(pp, key, phase, session, eventY) ==
    LET dy == Sub(Num(eventY), Num(session.y))
        params == session.params
    IN  IF phase \notin DOMAIN pp THEN pp
        ELSE [pp EXCEPT ![phase] =
                CASE key = "d" -> [@ EXCEPT !.D = getAdjustmentForDrag("d", dy, params.D)]
                  [] key = "q" -> [@ EXCEPT !.Qi = getAdjustmentForDrag("q", dy, params.Qi)]
                  [] key = "b" -> [@ EXCEPT !.b = getAdjustmentForDrag("b", dy, params.b),
                                             !.D = getAdjustmentForDrag("d", dy, params.D)]
                  [] OTHER -> @]

\* Lines 545-565: the drag handler's update of phaseParams, with the key and
\* phase of the handler's closure and the session in dragStartRef
DragUpdate(pp, key, phase, session, eventY) ==
    LET dy == Sub(Num(eventY), Num(session.y))
        params == session.params
    IN  IF phase \notin DOMAIN pp THEN pp
        ELSE [pp EXCEPT ![phase] =
                CASE key = "d" -> [@ EXCEPT !.D = getAdjustmentForDrag("d", dy, params.D)]
                  [] key = "q" -> [@ EXCEPT !.Qi = getAdjustmentForDrag("q", dy, params.Qi)]
                  [] key = "b" -> [@ EXCEPT !.b = getAdjustmentForDrag("b", dy, params.b)]
                  [] OTHER -> @]

\* Line 543: the drag handler returns early
DragApplies(g, session) ==
    /\ g # <<>>
    /\ g[1].activeKey # NoKey
    /\ g[1].activePhase # NoPhase
    /\ session # <<>>

\* Line 541: d3.drag filter, evaluated in the closure of the bound listeners
DragFilter(c) == c.activeKey # NoKey /\ c.activePhase # NoPhase

\* Lines 526-534: the session the mousedown handler of a curve stores, in the
\* closure c of the render that bound it; <<>> when it stores none
MouseDownSession(c, phase, eventY, old) ==
    IF c.activeKey # NoKey
    THEN <<[y |-> eventY, params |-> c.phaseParams[phase]]>>
    ELSE old

\* Line 527 without the call of setAutoFitEnabled
MouseDownKeepsAutoFit(c, enabled) == enabled

\* Line 527
MouseDownAutoFit(c, enabled) == IF c.activeKey # NoKey THEN FALSE ELSE enabled

\* Lines 366-709: the closure of the listeners after the D3 effect has run
\* for a render with these values; the effect returns early without data and
\* the listeners bound before stay
D3Render(pd, key, phase, pp, old) ==
    IF ~pd.rows THEN old
    ELSE <<[activeKey |-> key,
            activePhase |-> phase,
            phaseParams |-> pp,
            curves |-> {p \in DOMAIN pp :
                          p \in DOMAIN pd.series /\ Len(pd.series[p]) > 0}]>>

-----------------------------------------------------------------------------
(* dca-utilities.js *)

\* Line 122: [...points].sort((a, b) => a.t - b.t), a stable sort
RECURSIVE InsertByT(_, _)
InsertByT(s, x) ==
    IF s = <<>> THEN <<x>>
    ELSE IF Lt(x.t, Head(s).t) THEN <<x>> \o s
    ELSE <<Head(s)>> \o InsertByT(Tail(s), x)

RECURSIVE SortByT(_)
SortByT(s) ==
    IF s = <<>> THEN <<>>
    ELSE InsertByT(SortByT(SubSeq(s, 1, Len(s) - 1)), s[Len(s)])

\* Lines 117-137
estimateDeclineParams(points) ==
    IF Len(points) < 3
    THEN [Qi |-> IF Len(points) = 0 \/ Falsy(points[1].value)
                 THEN Num(100) ELSE points[1].value,
          b |-> Half,
          D |-> Frac(5, 100)]
    ELSE LET sorted == SortByT(points)
             Qi == sorted[1].value
             last == sorted[Len(sorted)]
             b == Half
             ratio == Div(last.value, Qi)
             t == last.t
         IN  [Qi |-> Qi, b |-> b,
              D |-> MathMax(Frac(1, 1000),
                            MathMin(Half, Div(Sub(One, ratio), Mul(t, Sub(One, b)))))]

\* Lines 233-247 (the exported copy of the chart's helper)
utilGetAdjustmentForDrag(key, dy, originalValue) ==
    CASE key = "d" ->
            MathMax(Frac(1, 10000), Mul(originalValue, Sub(One, Mul(dy, Frac(5, 10000)))))
      [] key = "q" ->
            MathMax(One, Sub(originalValue, Mul(dy, Half)))
      [] key = "b" ->
            MathMax(Zero, MathMin(One, Add(originalValue, Mul(dy, Frac(2, 1000)))))
      [] OTHER -> originalValue

\* Lines 16-21 (InteractiveDCAChart.js lines 4-9 and dca.js lines 2-7 are the
\* same function), rounded to the precision of the model
calculateRate(Qi, b, D, t) ==
    Rnd(IF b = Zero
        THEN Mul(Qi, MathExp(Mul(Neg(D), t)))
        ELSE Div(Qi, MathPow(Add(One, Mul(Mul(b, D), t)), Div(One, b))))

\* Lines 101-107: sumSquaredError after the first n points
RECURSIVE SumSquaredError(_, _, _)
SumSquaredError(points, params, n) ==
    IF n = 0 THEN Zero
    ELSE LET predicted == calculateRate(params.Qi, params.b, params.D, points[n].t)
         IN  AddR(SumSquaredError(points, params, n - 1),
                  MathPow(Sub(predicted, points[n].value), Num(2)))

\* Lines 99-110
calculateError(points, params) ==
    Div(SumSquaredError(points, params, Len(points)), Num(Len(points)))

\* Line 118 with the argument missing (undefined or null): !points holds and
\* points?.[0]?.value is undefined
estimateDeclineParamsOfMissing == [Qi |-> Num(100), b |-> Half, D |-> Frac(1, 20)]

\* Line 166
bValues == <<Zero, Frac(3, 10), Half, Frac(7, 10), Frac(9, 10)>>

\* Lines 170-171, 177-178: D = minD + (i / 10) * (maxD - minD) for i = 0..10
DValues ==
    [j \in 1..11 |->
        Add(Frac(1, 1000), Mul(Frac(j - 1, 10), Sub(Half, Frac(1, 1000))))]

\* Line 181 if the fifth sum of 0.05 came out above 1.1
QiPctsWithoutLast == <<Frac(9, 10), Frac(19, 20), One, Frac(21, 20)>>

\* Line 181: qiPct runs from 0.9 in steps of 0.05 while it is at most 1.1,
\* which is five values in IEEE-754 arithmetic as well
QiPcts == <<Frac(9, 10), Frac(19, 20), One, Frac(21, 20), Frac(11, 10)>>

\* Lines 168-183: the parameters of the k-th evaluation of the grid, b in the
\* outer loop, D in the middle one, Qi in the inner one
GridSize == Len(bValues) * Len(DValues) * Len(QiPcts)
GridParams(guess, k) ==
    LET perB == Len(DValues) * Len(QiPcts)
    IN  [Qi |-> Mul(guess.Qi, QiPcts[((k - 1) % Len(QiPcts)) + 1]),
         b  |-> bValues[((k - 1) \div perB) + 1],
         D  |-> DValues[(((k - 1) % perB) \div Len(QiPcts)) + 1]]

\* An initialGuess: its fields are optional, `given` names those it has
Guess(given, Qi, b, D) == [given |-> given, Qi |-> Qi, b |-> b, D |-> D]
NoGuess == Guess({}, Zero, Zero, Zero)

\* Lines 155-159
FitGuess(points, initialGuess) ==
    [Qi |-> IF "Qi" \in initialGuess.given /\ ~Falsy(initialGuess.Qi)
            THEN initialGuess.Qi ELSE points[1].value,
     b  |-> IF "b" \in initialGuess.given THEN initialGuess.b ELSE Half,
     D  |-> IF "D" \in initialGuess.given THEN initialGuess.D ELSE Frac(1, 20)]

\* Lines 148-150
FitFallback == [Qi |-> Num(100), b |-> Half, D |-> Frac(1, 20), error |-> PInf]

\* The fitter between two evaluations of the grid: its sorted points, its
\* guess, the number k of the next evaluation, the best so far, and the
\* value it returned once it has; caller and wells are those of
\* generateTypeCurve when the call came from there
NoFit ==
    [pc |-> "idle", caller |-> "none", wells |-> <<>>,
     dataPoints |-> <<>>, points |-> <<>>,
     guess |-> [Qi |-> Zero, b |-> Zero, D |-> Zero], k |-> 0,
     bestParams |-> [Qi |-> Zero, b |-> Zero, D |-> Zero], bestError |-> Zero,
     result |-> [Qi |-> Zero, b |-> Zero, D |-> Zero, error |-> Zero]]

\* Lines 147-163 with an error of 0 in the fallback
FitEnterZeroError(dataPoints, initialGuess) ==
    IF Len(dataPoints) < 3
    THEN [NoFit EXCEPT !.pc = "done", !.dataPoints = dataPoints,
                       !.result = [FitFallback EXCEPT !.error = Zero]]
    ELSE LET points == SortByT(dataPoints)
             guess  == FitGuess(points, initialGuess)
         IN  [NoFit EXCEPT !.pc = "grid", !.dataPoints = dataPoints,
                           !.points = points, !.guess = guess, !.k = 1,
                           !.bestParams = guess,
                           !.bestError = calculateError(points, guess)]

\* Lines 147-163: a short series returns the fallback at once (a missing
\* one as well: !dataPoints), any other enters the grid with the guess as
\* the best so far
FitEnter(dataPoints, initialGuess) ==
    IF Len(dataPoints) < 3
    THEN [NoFit EXCEPT !.pc = "done", !.dataPoints = dataPoints,
                       !.result = FitFallback]
    ELSE LET points == SortByT(dataPoints)
             guess  == FitGuess(points, initialGuess)
         IN  [NoFit EXCEPT !.pc = "grid", !.dataPoints = dataPoints,
                           !.points = points, !.guess = guess, !.k = 1,
                           !.bestParams = guess,
                           !.bestError = calculateError(points, guess)]

\* Line 190 without the strictness of the comparison
FitBetterOrEqual(error, bestError) == Le(error, bestError)

\* Line 190
FitBetter(error, bestError) == Lt(error, bestError)

\* Lines 181-194: one evaluation of the grid (bestD and bestDError are
\* written and never read)
FitEvaluate(f) ==
    LET params == GridParams(f.guess, f.k)
        error  == calculateError(f.points, params)
    IN  IF FitBetter(error, f.bestError)
        THEN [f EXCEPT !.k = f.k + 1, !.bestParams = params, !.bestError = error]
        ELSE [f EXCEPT !.k = f.k + 1]

\* Line 198
FitReturn(f) ==
    [f EXCEPT !.pc = "done",
              !.result = [Qi |-> f.bestParams.Qi, b |-> f.bestParams.b,
                          D |-> f.bestParams.D, error |-> f.bestError]]

\* Lines 387-394: the points of one well, sorted and shifted to its first day
NormalizeWell(well) ==
    LET wellData == SortByT(well)
    IN  [i \in 1..Len(wellData) |->
            [t |-> Sub(wellData[i].t, wellData[1].t), value |-> wellData[i].value]]

\* Lines 384-398: normalizedData after the forEach over the wells
RECURSIVE NormalizedData(_)
NormalizedData(wells) ==
    IF wells = <<>> THEN <<>>
    ELSE NormalizedData(SubSeq(wells, 1, Len(wells) - 1))
             \o NormalizeWell(wells[Len(wells)])

\* Line 380
TypeCurveFallback == [Qi |-> Num(100), b |-> Half, D |-> Frac(1, 20)]

\* Lines 378-402: an empty list returns at once, any other calls the fitter
\* on normalizedData without an initial guess
TypeCurveEnter(wells) ==
    IF Len(wells) = 0
    THEN [NoFit EXCEPT !.pc = "done", !.caller = "generateTypeCurve",
                       !.wells = wells, !.result = TypeCurveFallback]
    ELSE [FitEnter(NormalizedData(wells), NoGuess)
             EXCEPT !.caller = "generateTypeCurve", !.wells = wells]

\* Lines 31-60; t is Infinity when the caller leaves it out
calculateEUR(Qi, b, D, t) ==
    IF Falsy(Qi) \/ Le(D, Zero) THEN Zero
    ELSE IF b = Zero
    THEN (IF Lt(t, PInf)
          THEN Mul(Div(Qi, D), Sub(One, MathExp(Mul(Neg(D), t))))
          ELSE Div(Qi, D))
    ELSE IF b = One
    THEN (IF Lt(t, PInf)
          THEN Mul(Div(Qi, D), MathLog(Add(One, Mul(D, t))))
          ELSE PInf)
    ELSE IF Lt(Zero, b) /\ Lt(b, One)
    THEN (IF Lt(t, PInf)
          THEN Mul(Div(Qi, Mul(D, Sub(One, b))),
                   Sub(One, MathPow(Add(One, Mul(Mul(b, D), t)),
                                    Div(Sub(One, b), b))))
          ELSE Div(Qi, Mul(D, Sub(One, b))))
    ELSE Zero

-----------------------------------------------------------------------------
(* InteractiveDCAChart.js: the values derived from phaseParams *)

\* A value that is a number or a text: results[phase] of calculatedEUR
Text(s) == [kind |-> s, value |-> Zero]
Number(x) == [kind |-> "number", value |-> x]

\* Lines 272-281 with Infinity for b === 1, as calculateEUR returns it
calculatedEURPhaseHarmonicInfinite(params) ==
    IF Falsy(params.Qi) \/ Le(params.D, Zero) THEN Text("N/A")
    ELSE IF params.b = Zero THEN Number(Div(params.Qi, params.D))
    ELSE IF Lt(Zero, params.b) /\ Lt(params.b, One)
    THEN Number(Div(params.Qi, Mul(params.D, Sub(One, params.b))))
    ELSE IF params.b = One THEN Number(PInf)
    ELSE Text("N/A")

\* Lines 272-281: calculatedEUR of one phase
calculatedEURPhase(params) ==
    IF Falsy(params.Qi) \/ Le(params.D, Zero) THEN Text("N/A")
    ELSE IF params.b = Zero THEN Number(Div(params.Qi, params.D))
    ELSE IF Lt(Zero, params.b) /\ Lt(params.b, One)
    THEN Number(Div(params.Qi, Mul(params.D, Sub(One, params.b))))
    ELSE IF params.b = One THEN Number(Mul(params.Qi, Num(10000)))
    ELSE Text("N/A")

\* Lines 269-284
calculatedEUR(pp) == [phase \in DOMAIN pp |-> calculatedEURPhase(pp[phase])]

\* Lines 153-155: tMax, the largest t of the rows in the date window (every
\* row of the data sets here has a valid value in some phase)
TMax(pd) ==
    LET ts == UNION {{pd.series[p][i].t : i \in 1..Len(pd.series[p])} :
                     p \in DOMAIN pd.series}
    IN  IF ~pd.rows \/ ts = {} THEN Zero
        ELSE CHOOSE t \in ts : \A u \in ts : Le(u, t)

\* Lines 299-303: the sum of Q over the iterations i = lo..hi, added up by
\* halves (sums of rounded numbers are exact, so the order does not matter)
RECURSIVE ForecastSum(_, _, _, _)
ForecastSum(params, tMax, lo, hi) ==
    IF lo = hi
    THEN calculateRate(params.Qi, params.b, params.D,
                       Add(tMax, Mul(Frac(lo, 60), Num(60))))
    ELSE AddR(ForecastSum(params, tMax, lo, (lo + hi) \div 2),
              ForecastSum(params, tMax, (lo + hi) \div 2 + 1, hi))

\* Lines 289-305: forecastAverage of one phase
forecastAveragePhase(params, tMax) ==
    IF Falsy(params.Qi) \/ Le(params.D, Zero) THEN Zero
    ELSE Div(ForecastSum(params, tMax, 0, 60), Num(60 + 1))

\* Lines 286-308
forecastAverage(pp, tMax) ==
    [phase \in DOMAIN pp |-> forecastAveragePhase(pp[phase], tMax)]

\* Lines 233-260 with the loop alone, without the start point of line 241
forecastPointsPhaseWithoutStart(params, tMax, days) ==
    IF Falsy(params.Qi) \/ Le(params.D, Zero) THEN <<>>
    ELSE [i \in 1..50 |->
            LET t == Add(tMax, Mul(Frac(i, 50), days))
            IN  [t |-> t, Q |-> calculateRate(params.Qi, params.b, params.D, t)]]

\* Lines 227-262: the forecast points of one phase, the start point and the
\* 50 of the loop.  A point is kept as its time t and its rate Q; its date
\* is lastProdDate + (t - tMax) days
forecastPointsPhase(params, tMax, days) ==
    IF Falsy(params.Qi) \/ Le(params.D, Zero) THEN <<>>
    ELSE [i \in 1..(50 + 1) |->
            LET t == IF i = 1 THEN tMax
                     ELSE Add(tMax, Mul(Frac(i - 1, 50), days))
            IN  [t |-> t, Q |-> calculateRate(params.Qi, params.b, params.D, t)]]

\* Lines 222-266
allForecastPoints(hasData, pp, tMax, days) ==
    IF ~hasData THEN <<>>
    ELSE [phase \in DOMAIN pp |-> forecastPointsPhase(pp[phase], tMax, days)]

\* Line 314
NewParams(pp, eur, average) ==
    [phaseParams |-> pp, calculatedEUR |-> eur, forecastAverage |-> average]

\* Lines 315-316: JSON.stringify of such an object
JsonOutput(o) ==
    [phaseParams |-> JsonParams(o.phaseParams),
     calculatedEUR |->
        [p \in DOMAIN o.calculatedEUR |->
            [kind |-> o.calculatedEUR[p].kind,
             value |-> JsonNum(o.calculatedEUR[p].value)]],
     forecastAverage |->
        [p \in DOMAIN o.forecastAverage |-> JsonNum(o.forecastAverage[p])]]

\* Line 308 with phaseParams as the only dependency
AverageDepsWithoutTMax(v, pp, tMax) == pp # v.phaseParams

\* Line 266: a dependency of allForecastPoints has changed (lastProdDate
\* changes with the data, as localHasData and tMax do)
ForecastDepsChanged(v, hasData, pp, tMax, days) ==
    pp # v.phaseParams \/ tMax # v.tMax \/ days # v.forecastDays \/ hasData # v.hasData

\* Line 284
EURDepsChanged(v, pp) == pp # v.phaseParams

\* Line 308
AverageDepsChanged(v, pp, tMax) == pp # v.phaseParams \/ tMax # v.tMax

\* Line 318 without the comparison
EmitsWheneverRun(v, newParams) == TRUE

\* Lines 315-318: the JSON text differs from that of the last emission
Emits(v, newParams) == JsonOutput(newParams) # JsonOutput(v.lastOnParamsCallRef)

\* Lines 222-322: one render after the render v.  Each useMemo keeps its
\* value unless a dependency has changed, and returns a new object when one
\* has; the effect of lines 311-322 runs when one of its dependencies is a
\* new object, and emits when the JSON text differs from that of the last
\* emission.  calls is the number of invocations of onParametersCalculated
\* modulo 2, chartKey the key of App.js line 30 modulo 2
Render(v, hasData, pp, tMax, days) ==
    LET forecast == IF ForecastDepsChanged(v, hasData, pp, tMax, days)
                    THEN allForecastPoints(hasData, pp, tMax, days)
                    ELSE v.allForecastPoints
        eur      == IF EURDepsChanged(v, pp)
                    THEN calculatedEUR(pp) ELSE v.calculatedEUR
        average  == IF AverageDepsChanged(v, pp, tMax)
                    THEN forecastAverage(pp, tMax) ELSE v.forecastAverage
        runs     == pp # v.phaseParams \/ EURDepsChanged(v, pp)
                       \/ AverageDepsChanged(v, pp, tMax)
        emits    == runs /\ Emits(v, NewParams(pp, eur, average))
    IN  [hasData |-> hasData, phaseParams |-> pp, tMax |-> tMax,
         forecastDays |-> days, allForecastPoints |-> forecast,
         calculatedEUR |-> eur, forecastAverage |-> average,
         lastOnParamsCallRef |-> IF emits THEN NewParams(pp, eur, average)
                                 ELSE v.lastOnParamsCallRef,
         calls |-> IF emits THEN (v.calls + 1) % 2 ELSE v.calls,
         chartKey |-> v.chartKey]

\* The first render (lines 56-74 and App.js lines 10, 29): no data, no
\* parameters, a forecast of 90 days; its effect emits the empty object
FirstRender ==
    [hasData |-> FALSE, phaseParams |-> <<>>, tMax |-> Zero,
     forecastDays |-> Num(90), allForecastPoints |-> <<>>,
     calculatedEUR |-> <<>>, forecastAverage |-> <<>>,
     lastOnParamsCallRef |-> NewParams(<<>>, <<>>, <<>>),
     calls |-> 1, chartKey |-> 0]

\* App.js lines 102 and 191: the key changes and a new chart is mounted with
\* the state of lines 56-74; its ref is null, so that the effect of its first
\* render emits the empty object whatever the chart before it emitted
Remount(v) ==
    [FirstRender EXCEPT !.forecastDays = v.forecastDays,
                        !.calls = (v.calls + 1) % 2,
                        !.chartKey = (v.chartKey + 1) % 2]

-----------------------------------------------------------------------------
(* dca-utilities.js: the average over 60 days *)

\* Lines 81-88: the weighted sum over the iterations i = lo..hi, by halves
RECURSIVE TrapezoidSum(_, _, _, _, _, _)
TrapezoidSum(Qi, b, D, t, lo, hi) ==
    IF lo = hi
    THEN LET time   == Add(t, Mul(Num(lo), Div(Num(60), Num(20))))
             weight == IF lo = 0 \/ lo = 20 THEN Half ELSE One
         IN  Rnd(Mul(weight, calculateRate(Qi, b, D, time)))
    ELSE AddR(TrapezoidSum(Qi, b, D, t, lo, (lo + hi) \div 2),
              TrapezoidSum(Qi, b, D, t, (lo + hi) \div 2 + 1, hi))

\* Lines 70-91
calculate60DayAverage(Qi, b, D, t) ==
    IF Falsy(Qi) \/ Le(D, Zero) THEN Zero
    ELSE Div(Mul(TrapezoidSum(Qi, b, D, t, 0, 20), Div(Num(60), Num(20))), Num(60))

-----------------------------------------------------------------------------
(* dca-utilities.js: the percentage error *)

\* Math.abs
MathAbs(a) == <<Abs(a[1]), a[2]>>

\* An array argument: given, with its items, or missing (undefined, null)
Array(items) == [given |-> TRUE, items |-> items]
NoArray == [given |-> FALSE, items |-> <<>>]

\* Line 264 with zero let through
CountedWithZero(actual) == Le(Zero, actual)

\* Line 264: the pairs that count
Counted(actual) == Lt(Zero, actual)

\* Lines 263-269: sumPercentError and count after the first n pairs
RECURSIVE PercentErrorLoop(_, _, _)
PercentErrorLoop(actuals, forecast, n) ==
    IF n = 0 THEN [sumPercentError |-> Zero, count |-> 0]
    ELSE LET before == PercentErrorLoop(actuals, forecast, n - 1)
             percentError ==
                 Mul(MathAbs(Div(Sub(forecast[n], actuals[n]), actuals[n])), Num(100))
         IN  IF Counted(actuals[n])
             THEN [sumPercentError |-> Add(before.sumPercentError, percentError),
                   count |-> before.count + 1]
             ELSE before

\* Lines 255-272
calculatePercentageError(actuals, forecast) ==
    IF ~actuals.given \/ ~forecast.given
          \/ Len(actuals.items) # Len(forecast.items)
    THEN PInf
    ELSE LET loop == PercentErrorLoop(actuals.items, forecast.items,
                                      Len(actuals.items))
         IN  IF loop.count > 0
             THEN Div(loop.sumPercentError, Num(loop.count))
             ELSE PInf

-----------------------------------------------------------------------------
(* App.js and DualRangeSlider.jsx: the date slider *)

\* App.js lines 11-15 and 84-91: no data loaded, both ranges [0, 1], and
\* totalDays 1; held: a thumb of the slider is held down
FirstApp ==
    [minDate |-> FALSE, totalDays |-> 1, sliderRange |-> <<0, 1>>,
     filterRange |-> <<0, 1>>, held |-> FALSE]

\* App.js lines 60-82: the effect on dataString, for data that spans
\* totalDays days
DatesEffect(a, totalDays) ==
    [a EXCEPT !.minDate = TRUE, !.totalDays = totalDays,
              !.sliderRange = <<0, totalDays>>, !.filterRange = <<0, totalDays>>]

\* App.js lines 127-129
handleFinalChange(a) == [a EXCEPT !.filterRange = a.sliderRange]

\* DualRangeSlider.jsx lines 5-12: what Range does when a thumb is released.
\* The component takes min, max, values, onChange and tipFormatter from its
\* props and hands Range no onFinalChange, so nothing is called
DualRangeSliderRelease(a) == a

-----------------------------------------------------------------------------
(* Arguments and call records of the functions called on their own *)

\* The record of one call: which function, its arguments, its result
\* (missing: the series argument is undefined or null)
NoCall == [fn |-> "none", points |-> <<>>, missing |-> FALSE, key |-> NoKey,
           dy |-> Zero, originalValue |-> Zero,
           params |-> [Qi |-> Zero, b |-> Zero, D |-> Zero], t |-> Zero,
           actuals |-> NoArray, forecast |-> NoArray,
           result |-> <<>>]

\* Arguments: series of up to MaxLen points, in any order of t, with zero
\* and positive values; the three keys and one that is none of them;
\* displacements in pixels; origin values inside and outside [0, 1]
UtilTs == {0, 15, 30}
UtilValues == {Zero, Num(100), Num(400)}
UtilPoints == {Pt(t, v) : t \in UtilTs, v \in UtilValues}
UtilSeries == UNION {[1..n -> UtilPoints] : n \in 0..MaxLen}
UtilKeys == Keys \cup {"x"}
UtilDys == {Num(0 - 600), Num(0 - 300), Zero, Num(300), Num(600)}
UtilOrigins == {Num(0 - 1), Zero, Frac(1, 10000), Frac(1, 4), Half, One, Num(2), Num(100)}

\* Parameters: Qi zero, NaN, positive and negative; b on and off [0, 1]; D
\* negative, zero, positive and NaN.  Horizons: none (Infinity) and 30 days
UtilQis == {Zero, NaN, Num(100), Num(0 - 100)}
UtilBs == {Num(0 - 1), Zero, Frac(3, 10), Half, One, Num(2), NaN}
UtilDs == {Num(0 - 1), Zero, Frac(1, 20), NaN}
UtilParams == {[Qi |-> Qi, b |-> b, D |-> D] : Qi \in UtilQis, b \in UtilBs, D \in UtilDs}
UtilHorizons == {PInf, Num(30)}

NonDecreasingT(points) ==
    \A i \in 1..(Len(points) - 1) : ~Lt(points[i + 1].t, points[i].t)

-----------------------------------------------------------------------------
(* InteractiveDCAChart.js: the component *)


\* History of a press: where it landed, the parameters it found, whether no
\* modifier key was down at the press or since, and the pointer position of
\* the last update the drag listener wrote (NoMove: none yet)
NoMove == 0 - 1
Press(curve, y) ==
    <<[curve |-> curve, y |-> y, params |-> phaseParams,
       keyless |-> activeKey = NoKey, moved |-> NoMove]>>

\* Lines 61-74 and 77-159 with dataString = '' (App.js line 10)
Init ==
    /\ phaseData = NoRows
    /\ forecastDays = 90
    /\ phaseParams = <<>>
    /\ autoFitEnabled = TRUE
    /\ activeKey = NoKey
    /\ activePhase = NoPhase
    /\ dragStartRef = <<>>
    /\ prevParamsRef = <<>>
    /\ rendered = <<>>
    /\ gesture = <<>>
    /\ press = <<>>
    /\ sessions = 0
    /\ dragged = {}
    /\ util = NoCall
    /\ fitter = NoFit
    /\ view = FirstRender
    /\ app = FirstApp

\* dataString, startDate or endDate change: phaseData is recomputed (lines
\* 77-150), the auto-fit effect and the D3 effect run.  The props change
\* through the page's other controls, between two presses on the chart.
SetData(d) ==
    /\ d # phaseData
    /\ press = <<>>
    /\ LET fit == AutoFitEffect(d, autoFitEnabled, prevParamsRef, phaseParams)
       IN  /\ phaseData' = d
           /\ prevParamsRef' = fit[1]
           /\ phaseParams' = fit[2]
           /\ rendered' = D3Render(d, activeKey, activePhase, fit[2], rendered)
    /\ UNCHANGED <<forecastDays, autoFitEnabled, activeKey, activePhase,
                   dragStartRef, gesture, press, sessions, dragged, util, fitter, view, app>>

\* forecastDays changes (App.js line 29): only the D3 effect depends on it
SetForecastDays(n) ==
    /\ n # forecastDays
    /\ press = <<>>
    /\ forecastDays' = n
    /\ rendered' = D3Render(phaseData, activeKey, activePhase, phaseParams, rendered)
    /\ UNCHANGED <<phaseData, phaseParams, autoFitEnabled, activeKey, activePhase,
                   dragStartRef, prevParamsRef, gesture, press, sessions,
                   dragged, util, fitter, view, app>>

\* Lines 326-331 if the gesture in progress took up the listeners bound by
\* the render that follows
handleKeyDownRebinds(k) ==
    /\ activeKey' = k
    /\ rendered' = D3Render(phaseData, k, activePhase, phaseParams, rendered)
    /\ press' = IF press = <<>> THEN press ELSE <<[press[1] EXCEPT !.keyless = FALSE]>>
    /\ gesture' = IF gesture = <<>> THEN gesture
                  ELSE <<[gesture[1] EXCEPT !.activeKey = k]>>
    /\ UNCHANGED <<phaseData, forecastDays, phaseParams, autoFitEnabled,
                   activePhase, dragStartRef, prevParamsRef,
                   sessions, dragged, util, fitter, view, app>>

\* Lines 326-331
handleKeyDown(k) ==
    /\ activeKey' = k
    /\ rendered' = D3Render(phaseData, k, activePhase, phaseParams, rendered)
    /\ press' = IF press = <<>> THEN press ELSE <<[press[1] EXCEPT !.keyless = FALSE]>>
    /\ UNCHANGED <<phaseData, forecastDays, phaseParams, autoFitEnabled,
                   activePhase, dragStartRef, prevParamsRef, gesture,
                   sessions, dragged, util, fitter, view, app>>

\* Lines 333-337
handleKeyUp ==
    /\ activeKey' = NoKey
    /\ dragStartRef' = <<>>
    /\ rendered' = D3Render(phaseData, NoKey, activePhase, phaseParams, rendered)
    /\ UNCHANGED <<phaseData, forecastDays, phaseParams, autoFitEnabled,
                   activePhase, prevParamsRef, gesture, press, sessions,
                   dragged, util, fitter, view, app>>

\* The gesture d3.drag starts on mousedown when the filter of the bound
\* listeners passes (line 541); it keeps the listeners of that moment
GestureStart(r) ==
    IF r # <<>> /\ DragFilter(r[1])
    THEN <<[activeKey |-> r[1].activeKey, activePhase |-> r[1].activePhase]>>
    ELSE <<>>

\* Pointer pressed on the curve of phase p: the curve's mousedown listener
\* (lines 520-535) runs in the closure that bound it, React commits and the
\* D3 effect runs, then the event reaches the svg and d3.drag (lines 539-541)
MouseDownOnCurve(p, y) ==
    /\ press = <<>>
    /\ rendered # <<>>
    /\ p \in rendered[1].curves
    /\ rendered[1].activeKey # NoKey => sessions < MaxSessions
    /\ LET c == rendered[1]
           r == D3Render(phaseData, activeKey, p, phaseParams, rendered)
       IN  /\ activePhase' = p
           /\ autoFitEnabled' = MouseDownAutoFit(c, autoFitEnabled)
           /\ dragStartRef' = MouseDownSession(c, p, y, dragStartRef)
           /\ rendered' = r
           /\ gesture' = GestureStart(r)
           /\ sessions' = IF c.activeKey # NoKey THEN sessions + 1 ELSE sessions
           /\ dragged' = IF c.activeKey # NoKey THEN dragged \cup {p} ELSE dragged
    /\ press' = Press(p, y)
    /\ UNCHANGED <<phaseData, forecastDays, phaseParams, activeKey,
                   prevParamsRef, util, fitter, view, app>>

\* Pointer pressed on the svg outside every curve: only d3.drag sees it
MouseDownOnSvg(y) ==
    /\ press = <<>>
    /\ gesture' = GestureStart(rendered)
    /\ press' = Press(NoPhase, y)
    /\ UNCHANGED <<phaseData, forecastDays, phaseParams, autoFitEnabled,
                   activeKey, activePhase, dragStartRef, prevParamsRef,
                   rendered, sessions, dragged, util, fitter, view, app>>

\* Pointer moved with the button down: the gesture's drag listener (lines
\* 542-566), then the D3 effect for the new phaseParams
MouseMove(y) ==
    /\ press # <<>>
    /\ LET applies == DragApplies(gesture, dragStartRef)
           pp == IF applies
                 THEN DragUpdate(phaseParams, gesture[1].activeKey,
                                 gesture[1].activePhase, dragStartRef[1], y)
                 ELSE phaseParams
       IN  /\ phaseParams' = pp
           /\ rendered' = D3Render(phaseData, activeKey, activePhase, pp, rendered)
           /\ press' = IF applies THEN <<[press[1] EXCEPT !.moved = y]>> ELSE press
    /\ UNCHANGED <<phaseData, forecastDays, autoFitEnabled, activeKey,
                   activePhase, dragStartRef, prevParamsRef, gesture,
                   sessions, dragged, util, fitter, view, app>>

\* Pointer released: the gesture's end listener (lines 567-570), if a
\* gesture is in progress
MouseUp ==
    /\ press # <<>>
    /\ dragStartRef' = IF gesture # <<>> THEN <<>> ELSE dragStartRef
    /\ gesture' = <<>>
    /\ press' = <<>>
    /\ UNCHANGED <<phaseData, forecastDays, phaseParams, autoFitEnabled,
                   activeKey, activePhase, prevParamsRef, rendered, sessions,
                   dragged, util, fitter, view, app>>

\* App.js line 102 if it enabled auto-fit in the mounted chart instead of
\* mounting it again: the auto-fit effect runs on the state as it is
resetAutoFitWithoutRemount ==
    /\ press = <<>>
    /\ LET fit == AutoFitEffect(phaseData, TRUE, prevParamsRef, phaseParams)
       IN  /\ prevParamsRef' = fit[1]
           /\ phaseParams' = fit[2]
           /\ rendered' = D3Render(phaseData, activeKey, activePhase, fit[2], rendered)
    /\ autoFitEnabled' = TRUE
    /\ dragged' = {}
    /\ UNCHANGED <<phaseData, forecastDays, press, sessions, activeKey,
                   activePhase, dragStartRef, gesture, util, fitter, view, app>>

\* App.js line 102: chartKey changes, the chart is mounted again with its
\* initial state and its effects run on the current props
resetAutoFit ==
    /\ press = <<>>
    /\ LET fit == AutoFitEffect(phaseData, TRUE, <<>>, <<>>)
       IN  /\ prevParamsRef' = fit[1]
           /\ phaseParams' = fit[2]
           /\ rendered' = D3Render(phaseData, NoKey, NoPhase, fit[2], <<>>)
    /\ autoFitEnabled' = TRUE
    /\ activeKey' = NoKey
    /\ activePhase' = NoPhase
    /\ dragStartRef' = <<>>
    /\ gesture' = <<>>
    /\ dragged' = {}
    /\ UNCHANGED <<phaseData, forecastDays, press, sessions, util, fitter, view, app>>

Next ==
    \/ \E d \in DataSets : SetData(d)
    \/ \E n \in ForecastChoices : SetForecastDays(n)
    \/ \E k \in Keys : handleKeyDown(k)
    \/ handleKeyUp
    \/ \E p \in Phases, y \in PointerYs : MouseDownOnCurve(p, y)
    \/ \E y \in PointerYs : MouseDownOnSvg(y)
    \/ \E y \in PointerYs : MouseMove(y)
    \/ MouseUp
    \/ resetAutoFit

Spec == Init /\ [][Next]_vars

-----------------------------------------------------------------------------
(* The estimators and the drag helpers called on their own arguments *)

\* dca-utilities.js lines 117-137 on any series
CallEstimateDeclineParams(points) ==
    /\ util = NoCall
    /\ util' = [NoCall EXCEPT !.fn = "estimateDeclineParams", !.points = points,
                              !.result = estimateDeclineParams(points)]
    /\ UNCHANGED <<chartVars, fitter, view, app>>

\* InteractiveDCAChart.js lines 166-196 on one phase's series; phaseData is
\* built from rows sorted by date (lines 107, 141-150)
CallAutoFitPhase(points) ==
    /\ util = NoCall
    /\ NonDecreasingT(points)
    /\ util' = [NoCall EXCEPT !.fn = "autoFit", !.points = points,
                              !.result = AutoFitPhase(points)]
    /\ UNCHANGED <<chartVars, fitter, view, app>>

\* InteractiveDCAChart.js lines 349-363
CallGetAdjustmentForDrag(key, dy, originalValue) ==
    /\ util = NoCall
    /\ util' = [NoCall EXCEPT !.fn = "getAdjustmentForDrag", !.key = key,
                              !.dy = dy, !.originalValue = originalValue,
                              !.result = getAdjustmentForDrag(key, dy, originalValue)]
    /\ UNCHANGED <<chartVars, fitter, view, app>>

\* dca-utilities.js lines 233-247
CallUtilGetAdjustmentForDrag(key, dy, originalValue) ==
    /\ util = NoCall
    /\ util' = [NoCall EXCEPT !.fn = "utilGetAdjustmentForDrag", !.key = key,
                              !.dy = dy, !.originalValue = originalValue,
                              !.result = utilGetAdjustmentForDrag(key, dy, originalValue)]
    /\ UNCHANGED <<chartVars, fitter, view, app>>

\* dca-utilities.js lines 147-150 on a series of fewer than three points
CallFitDeclineCurveShort(dataPoints) ==
    /\ util = NoCall
    /\ Len(dataPoints) < 3
    /\ util' = [NoCall EXCEPT !.fn = "fitDeclineCurve", !.points = dataPoints,
                              !.result = FitEnter(dataPoints, NoGuess).result]
    /\ UNCHANGED <<chartVars, fitter, view, app>>

\* dca-utilities.js lines 118-120 and 148-150 without a series
CallWithoutSeries(fn) ==
    /\ util = NoCall
    /\ util' = [NoCall EXCEPT !.fn = fn, !.missing = TRUE,
                              !.result = IF fn = "estimateDeclineParams"
                                         THEN estimateDeclineParamsOfMissing
                                         ELSE FitEnter(<<>>, NoGuess).result]
    /\ UNCHANGED <<chartVars, fitter, view, app>>

\* InteractiveDCAChart.js lines 272-281 on the parameters of one phase
CallCalculatedEUR(params) ==
    /\ util = NoCall
    /\ util' = [NoCall EXCEPT !.fn = "calculatedEUR", !.params = params,
                              !.result = calculatedEURPhase(params)]
    /\ UNCHANGED <<chartVars, fitter, view, app>>

\* dca-utilities.js lines 31-60
CallCalculateEUR(params, t) ==
    /\ util = NoCall
    /\ util' = [NoCall EXCEPT !.fn = "calculateEUR", !.params = params, !.t = t,
                              !.result = Number(calculateEUR(params.Qi, params.b,
                                                             params.D, t))]
    /\ UNCHANGED <<chartVars, fitter, view, app>>

\* Actual values: negative, zero, positive; forecast values; arrays of up
\* to MaxPairs of them, or none
PctActuals == {Num(0 - 100), Zero, Num(100), Num(200)}
PctForecasts == {Zero, Num(110), Num(180)}
PctArrays(values) ==
    {NoArray} \cup {Array(items) : items \in UNION {[1..n -> values] : n \in 0..MaxPairs}}

\* dca-utilities.js lines 255-272
CallCalculatePercentageError(actuals, forecast) ==
    /\ util = NoCall
    /\ util' = [NoCall EXCEPT !.fn = "calculatePercentageError",
                              !.actuals = actuals, !.forecast = forecast,
                              !.result = calculatePercentageError(actuals, forecast)]
    /\ UNCHANGED <<chartVars, fitter, view, app>>

\* The call has returned and its record is dropped
Return ==
    /\ util # NoCall
    /\ util' = NoCall
    /\ UNCHANGED <<chartVars, fitter, view, app>>

NextUtil ==
    \/ \E points \in UtilSeries : CallEstimateDeclineParams(points)
    \/ \E points \in UtilSeries : CallAutoFitPhase(points)
    \/ \E k \in UtilKeys, dy \in UtilDys, v \in UtilOrigins :
            CallGetAdjustmentForDrag(k, dy, v)
    \/ \E k \in UtilKeys, dy \in UtilDys, v \in UtilOrigins :
            CallUtilGetAdjustmentForDrag(k, dy, v)
    \/ \E points \in UtilSeries : CallFitDeclineCurveShort(points)
    \/ \E fn \in {"estimateDeclineParams", "fitDeclineCurve"} : CallWithoutSeries(fn)
    \/ \E params \in UtilParams : CallCalculatedEUR(params)
    \/ \E params \in UtilParams, t \in UtilHorizons : CallCalculateEUR(params, t)
    \/ \E actuals \in PctArrays(PctActuals), forecast \in PctArrays(PctForecasts) :
            CallCalculatePercentageError(actuals, forecast)
    \/ Return

SpecUtil == Init /\ [][NextUtil]_vars

-----------------------------------------------------------------------------
(* The derived values of the chart, render by render *)

\* Parameters of the one phase rendered: a falsy Qi, D = 0, D = NaN, and
\* valid ones with b = 0, 0.5, 1 and a b outside [0, 1]
ViewParams ==
    { [Qi |-> Zero, b |-> Half, D |-> Frac(1, 20)],
      [Qi |-> Num(100), b |-> Half, D |-> Zero],
      [Qi |-> Num(100), b |-> Half, D |-> NaN],
      [Qi |-> Num(100), b |-> Half, D |-> Frac(1, 20)],
      [Qi |-> Num(400), b |-> Zero, D |-> Frac(1, 100)],
      [Qi |-> Num(100), b |-> One, D |-> Frac(1, 20)],
      [Qi |-> Num(100), b |-> Num(2), D |-> Frac(1, 20)],
      [Qi |-> Num(150), b |-> Half, D |-> Frac(1, 1000)],
      [Qi |-> NaN, b |-> Half, D |-> Frac(1, 20)] }

\* phaseParams: empty, or an entry for oil
ViewPhaseParams == {<<>>} \cup {[phase \in {"oil"} |-> params] : params \in ViewParams}

\* localHasData and tMax: no row; rows of one date; rows over 30 days
ViewData ==
    { [hasData |-> FALSE, tMax |-> Zero],
      [hasData |-> TRUE, tMax |-> Zero],
      [hasData |-> TRUE, tMax |-> Num(30)] }

\* Positions of the forecast slider (App.js lines 261-268)
ViewForecastDays == {Num(30), Num(60), Num(90), Num(180)}

\* setPhaseParams with a new value (lines 199 and 550-564), and the render
\* that follows
setPhaseParams(pp) ==
    /\ pp # view.phaseParams
    /\ view' = Render(view, view.hasData, pp, view.tMax, view.forecastDays)
    /\ UNCHANGED <<chartVars, util, fitter, app>>

\* The data props change (lines 77-159), and the render that follows
DataChange(d) ==
    /\ d # [hasData |-> view.hasData, tMax |-> view.tMax]
    /\ view' = Render(view, d.hasData, view.phaseParams, d.tMax, view.forecastDays)
    /\ UNCHANGED <<chartVars, util, fitter, app>>

\* The forecastDays prop changes (App.js line 268), and the render that follows
ForecastDaysChange(days) ==
    /\ days # view.forecastDays
    /\ view' = Render(view, view.hasData, view.phaseParams, view.tMax, days)
    /\ UNCHANGED <<chartVars, util, fitter, app>>

\* The Reset Autofit button (App.js lines 102 and 275-276), and the first
\* render of the new chart
setChartKey ==
    /\ view' = Remount(view)
    /\ UNCHANGED <<chartVars, util, fitter, app>>

NextView ==
    \/ setChartKey
    \/ \E pp \in ViewPhaseParams : setPhaseParams(pp)
    \/ \E d \in ViewData : DataChange(d)
    \/ \E days \in ViewForecastDays : ForecastDaysChange(days)

SpecView == Init /\ [][NextView]_vars

-----------------------------------------------------------------------------
(* The date slider, event by event *)

\* The positions of the two thumbs between min = 0 and max = totalDays
\* (App.js lines 205-206), in steps of 1
SliderValues(totalDays) ==
    {<<lo, hi>> \in (0..totalDays) \X (0..totalDays) : lo <= hi}

\* A file is loaded (App.js lines 37-58) whose dates span totalDays days
LoadData(totalDays) ==
    /\ ~app.held
    /\ app' = DatesEffect(app, totalDays)
    /\ UNCHANGED <<chartVars, util, fitter, view>>

\* A thumb of the slider is pressed
ThumbDown ==
    /\ ~app.held
    /\ app' = [app EXCEPT !.held = TRUE]
    /\ UNCHANGED <<chartVars, util, fitter, view>>

\* The held thumb moves: Range calls onChange, which is setSliderRange
\* (App.js line 208), with values in order between min and max
setSliderRange(values) ==
    /\ app.held
    /\ values \in SliderValues(app.totalDays)
    /\ values # app.sliderRange
    /\ app' = [app EXCEPT !.sliderRange = values]
    /\ UNCHANGED <<chartVars, util, fitter, view>>

\* The thumb is released
ThumbUp ==
    /\ app.held
    /\ app' = [DualRangeSliderRelease(app) EXCEPT !.held = FALSE]
    /\ UNCHANGED <<chartVars, util, fitter, view>>

NextApp ==
    \/ \E totalDays \in 1..MaxDays : LoadData(totalDays)
    \/ ThumbDown
    \/ \E values \in SliderValues(MaxDays) : setSliderRange(values)
    \/ ThumbUp

SpecApp == Init /\ [][NextApp]_vars

-----------------------------------------------------------------------------
(* fitDeclineCurve, evaluation by evaluation *)

\* Values of the points handed to the fitter
FitValues == {Num(2), Num(4), Frac(22, 5)}

\* Series of three points: at t = 0, 30, 60 in that order; the same out of
\* order; three wells pooled at their common origin t = 0 (line 401); and
\* points that lie on the curve of the default guess (Qi = 4, b = 0.5,
\* D = 0.05: 4 / 1.75^2 and 4 / 2.5^2)
FitSeries ==
    {<<Pt(0, u), Pt(30, v), Pt(60, w)>> :
        u \in FitValues, v \in FitValues, w \in FitValues}
    \cup {<<Pt(60, w), Pt(0, Num(4)), Pt(30, w)>> :
        w \in FitValues}
    \cup {<<Pt(0, Num(4)), Pt(0, v), Pt(0, v)>> :
        v \in FitValues}
    \cup {<<Pt(0, Num(4)), Pt(30, Frac(13061, 10000)),
            Pt(60, Frac(16, 25))>>}

\* initialGuess: left out (line 401), or one that gives Qi and D
FitGuesses == {NoGuess, Guess({"Qi", "D"}, Num(5), Zero, Frac(1, 10))}

\* Wells: one without points, one whose points are out of order and start at
\* day 30, one of a single day, one of three days starting at day 30
TypeWells ==
    { <<>>,
      <<Pt(60, Num(2)), Pt(30, Num(4))>>,
      <<Pt(30, Num(4))>>,
      <<Pt(30, Frac(22, 5)), Pt(60, Num(4)), Pt(90, Num(2))>> }

\* Lists of at most two wells
TypeWellLists == {<<>>} \cup {<<w>> : w \in TypeWells}
                    \cup {<<w, x>> : w \in TypeWells, x \in TypeWells}

\* Lines 378-402: the call of generateTypeCurve
generateTypeCurve(wells) ==
    /\ fitter.pc = "idle"
    /\ fitter' = TypeCurveEnter(wells)
    /\ UNCHANGED <<chartVars, util, view, app>>

\* Lines 147-163: the call
fitDeclineCurve(dataPoints, initialGuess) ==
    /\ fitter.pc = "idle"
    /\ fitter' = FitEnter(dataPoints, initialGuess)
    /\ UNCHANGED <<chartVars, util, view, app>>

\* Lines 181-194: one pass of the innermost loop
GridStep ==
    /\ fitter.pc = "grid"
    /\ fitter.k <= GridSize
    /\ fitter' = FitEvaluate(fitter)
    /\ UNCHANGED <<chartVars, util, view, app>>

\* Line 198: the loops are over
ReturnBest ==
    /\ fitter.pc = "grid"
    /\ fitter.k > GridSize
    /\ fitter' = FitReturn(fitter)
    /\ UNCHANGED <<chartVars, util, view, app>>

\* The caller has the result
TakeResult ==
    /\ fitter.pc = "done"
    /\ fitter' = NoFit
    /\ UNCHANGED <<chartVars, util, view, app>>

NextFit ==
    \/ \E dataPoints \in FitSeries, initialGuess \in FitGuesses :
          fitDeclineCurve(dataPoints, initialGuess)
    \/ \E wells \in TypeWellLists : generateTypeCurve(wells)
    \/ GridStep
    \/ ReturnBest
    \/ TakeResult

SpecFit == Init /\ [][NextFit]_vars

-----------------------------------------------------------------------------
(* Properties of the chart (Spec) *)

\* C1: whenever the last update of the press in progress on a curve was made
\* with the pointer at the position where the press began, the parameters of
\* that curve's phase equal the parameters the phase had when the press began.
C1_RoundTripRestoresSnapshot ==
    (/\ press # <<>>
     /\ press[1].curve # NoPhase
     /\ press[1].moved = press[1].y
     /\ press[1].curve \in DOMAIN press[1].params
     /\ press[1].curve \in DOMAIN phaseParams)
    => phaseParams[press[1].curve] = press[1].params[press[1].curve]

C3_NoSessionAfterGestureEnd ==
    [][/\ (press # <<>> /\ press[1].curve # NoPhase /\ press' = <<>>)
            => (dragStartRef' = <<>> /\ phaseParams' = phaseParams)
       /\ (activeKey # NoKey /\ activeKey' = NoKey)
            => dragStartRef' = <<>>]_vars

\* C4: whenever an update of the press in progress has been applied, the
\* session it read holds the pointer position of that press and the
\* parameters the gesture's phase had when that press began.
C4_UpdateUsesOwnSession ==
    (/\ press # <<>>
     /\ press[1].moved # NoMove
     /\ gesture # <<>>
     /\ dragStartRef # <<>>
     /\ gesture[1].activePhase \in DOMAIN press[1].params)
    => /\ dragStartRef[1].y = press[1].y
       /\ dragStartRef[1].params = press[1].params[gesture[1].activePhase]

\* C6: while a press that began on the curve of phase P is in progress, the
\* parameters of every other phase equal those it had when the press began.
C6_OtherPhasesUntouched ==
    (press # <<>> /\ press[1].curve # NoPhase)
    => \A q \in DOMAIN phaseParams \ {press[1].curve} :
          q \in DOMAIN press[1].params /\ phaseParams[q] = press[1].params[q]

\* C9: while a press on a curve is in progress with no modifier key held at
\* the press or since, and the phase's Qi is above 200, moving the pointer to
\* another position changes that phase's Qi.
C9_QiIsDefaultTarget ==
    (/\ press # <<>>
     /\ press[1].curve # NoPhase
     /\ press[1].keyless
     /\ activeKey = NoKey
     /\ press[1].curve \in DOMAIN phaseParams
     /\ Lt(Num(200), phaseParams[press[1].curve].Qi))
    => \E y \in PointerYs \ {press[1].y} :
          ENABLED (/\ MouseMove(y)
                   /\ phaseParams'[press[1].curve].Qi # phaseParams[press[1].curve].Qi)

\* C14: in every state, the calculatedEUR of every phase is "N/A" or a finite
\* number and its forecastAverage is a finite number (these are the values
\* the effect of lines 311-322 hands to onParametersCalculated).
C14_OutputsAreFinite ==
    \A p \in DOMAIN phaseParams :
        /\ calculatedEUR(phaseParams)[p].kind = "N/A"
               \/ calculatedEUR(phaseParams)[p].value[2] # 0
        /\ forecastAverage(phaseParams, TMax(phaseData))[p][2] # 0

\* C15: in every state, every phase with an entry in phaseParams (and so in
\* the output of lines 311-322) has a series in the current data.
C15_NoParamsWithoutSeries ==
    \A p \in DOMAIN phaseParams : phaseData.rows /\ p \in DOMAIN phaseData.series

-----------------------------------------------------------------------------
(* Properties of the helpers (SpecUtil) *)

\* C7: the result of either getAdjustmentForDrag for key "d" lies in
\* [0.0001, 0.5], for every origin value and displacement.
C7_DragKeepsDInRange ==
    (util.fn \in {"getAdjustmentForDrag", "utilGetAdjustmentForDrag"} /\ util.key = "d")
    => (Le(Frac(1, 10000), util.result) /\ Le(util.result, Half))

\* C8: the result of either getAdjustmentForDrag for key "b" lies in [0, 1],
\* for every origin value and displacement.
C8_DragKeepsBInRange ==
    (util.fn \in {"getAdjustmentForDrag", "utilGetAdjustmentForDrag"} /\ util.key = "b")
    => (Le(Zero, util.result) /\ Le(util.result, One))

\* C8, its case: the chart's helper called for key "b" with an origin of 0.5
\* and the pointer 300 pixels lower, which the upper clamp cuts to 1
C8_UpperClampReached ==
    /\ util.fn = "getAdjustmentForDrag"
    /\ util.key = "b"
    /\ util.originalValue = Half
    /\ util.dy = Num(300)
    /\ util.result = One

\* C10: on a series of at least three points, with non-negative values and
\* non-decreasing t, both estimators return Qi > 0, b = 0.5 and D in
\* [0.001, 0.5].
C10_EstimateIsValid ==
    (/\ util.fn \in {"estimateDeclineParams", "autoFit"}
     /\ Len(util.points) >= 3
     /\ NonDecreasingT(util.points)
     /\ \A i \in 1..Len(util.points) : Le(Zero, util.points[i].value))
    => /\ Lt(Zero, util.result.Qi)
       /\ util.result.b = Half
       /\ Le(Frac(1, 1000), util.result.D)
       /\ Le(util.result.D, Half)

\* C11: called on a series of fewer than three points, an empty or a missing
\* one, the estimator returns Qi = the first value if there is a truthy one
\* and 100 otherwise, b = 0.5 and D = 0.05, and the fitter returns Qi = 100,
\* b = 0.5, D = 0.05 and error = +Infinity.
C11_ShortSeriesGetFallback ==
    (/\ util.fn \in {"estimateDeclineParams", "fitDeclineCurve"}
     /\ (util.missing \/ Len(util.points) < 3))
    => IF util.fn = "estimateDeclineParams"
       THEN util.result =
                [Qi |-> IF util.missing \/ util.points = <<>>
                           \/ Falsy(util.points[1].value)
                        THEN Num(100) ELSE util.points[1].value,
                 b |-> Half, D |-> Frac(1, 20)]
       ELSE util.result =
                [Qi |-> Num(100), b |-> Half, D |-> Frac(1, 20), error |-> PInf]

\* C11, its case: the fitter called on two points
C11_FitterOnTwoPoints ==
    /\ util.fn = "fitDeclineCurve"
    /\ Len(util.points) = 2
    /\ util.result.error = PInf

\* C12: the calculatedEUR the chart reports for a phase is the text "N/A"
\* exactly when Qi is falsy, D <= 0 or b is outside [0, 1]; otherwise it is
\* the number Qi/D for b = 0, Qi/(D(1-b)) for 0 < b < 1 and Qi*10000 for b = 1.
C12_CalculatedEURByCase ==
    util.fn = "calculatedEUR"
    => LET Qi == util.params.Qi
           b  == util.params.b
           D  == util.params.D
           na == Falsy(Qi) \/ Le(D, Zero) \/ ~(Le(Zero, b) /\ Le(b, One))
       IN  /\ (util.result.kind = "N/A") = na
           /\ ~na => util.result.kind = "number"
           /\ (~na /\ b = Zero) => util.result.value = Div(Qi, D)
           /\ (~na /\ Lt(Zero, b) /\ Lt(b, One))
                  => util.result.value = Div(Qi, Mul(D, Sub(One, b)))
           /\ (~na /\ b = One) => util.result.value = Mul(Qi, Num(10000))

\* C12, its case: harmonic parameters, reported with the placeholder
C12_HarmonicPlaceholder ==
    /\ util.fn = "calculatedEUR"
    /\ util.params = [Qi |-> Num(100), b |-> One, D |-> Frac(1, 20)]
    /\ util.result = Number(Num(1000000))

\* C13: calculateEUR called with Qi > 0, D > 0 and a b that is neither 0,
\* nor 1, nor inside (0, 1) returns a value that is not a number.
C13_InvalidBGivesSentinel ==
    (/\ util.fn = "calculateEUR"
     /\ Lt(Zero, util.params.Qi)
     /\ Lt(Zero, util.params.D)
     /\ util.params.b # Zero
     /\ util.params.b # One
     /\ ~(Lt(Zero, util.params.b) /\ Lt(util.params.b, One)))
    => util.result.kind # "number"

-----------------------------------------------------------------------------
(* Properties of the derived values (SpecView) *)

\* C16: in every render, calculatedEUR, forecastAverage and, with data, the
\* forecast are the values computed from the phaseParams, tMax and
\* forecastDays of that render, and the last emission holds the
\* calculatedEUR and forecastAverage computed from the phaseParams it holds
\* and the current tMax, which are those of the render as JSON prints them.
C16_DerivedFromCurrentInputs ==
    /\ view.calculatedEUR = calculatedEUR(view.phaseParams)
    /\ view.forecastAverage = forecastAverage(view.phaseParams, view.tMax)
    /\ view.hasData =>
           view.allForecastPoints =
               [phase \in DOMAIN view.phaseParams |->
                   forecastPointsPhase(view.phaseParams[phase], view.tMax,
                                       view.forecastDays)]
    /\ LET out == view.lastOnParamsCallRef
       IN  /\ out.calculatedEUR = calculatedEUR(out.phaseParams)
           /\ out.forecastAverage = forecastAverage(out.phaseParams, view.tMax)
           /\ JsonOutput(out) =
                  JsonOutput(NewParams(view.phaseParams, view.calculatedEUR,
                                       view.forecastAverage))

\* C16, its case: parameters with a forecast, rendered again after tMax
\* and forecastDays have changed
C16_RenderedAfterDataChange ==
    /\ view.hasData
    /\ view.tMax = Num(30)
    /\ view.forecastDays = Num(180)
    /\ view.phaseParams = [phase \in {"oil"} |->
                              [Qi |-> Num(100), b |-> Half, D |-> Frac(1, 20)]]
    /\ view.lastOnParamsCallRef.phaseParams = view.phaseParams

\* C17: with data, the forecast of a phase with a truthy Qi and D > 0 has
\* exactly 51 points, point 0 at tMax with the rate at tMax and point i
\* (1..50) at tMax + (i/50) * forecastDays with the rate at that time, the
\* last one at tMax + forecastDays; the forecast of a phase with a falsy Qi
\* or D <= 0 is empty.
C17_ForecastHas51Points ==
    view.hasData =>
        \A phase \in DOMAIN view.phaseParams :
            LET params == view.phaseParams[phase]
                points == view.allForecastPoints[phase]
                rate(t) == calculateRate(params.Qi, params.b, params.D, t)
            IN  /\ (~Falsy(params.Qi) /\ Lt(Zero, params.D)) =>
                       /\ Len(points) = 51
                       /\ points[1] = [t |-> view.tMax, Q |-> rate(view.tMax)]
                       /\ \A i \in 1..50 :
                              LET t == Add(view.tMax,
                                           Mul(Frac(i, 50), view.forecastDays))
                              IN  points[i + 1] = [t |-> t, Q |-> rate(t)]
                       /\ points[51].t = Add(view.tMax, view.forecastDays)
                /\ (Falsy(params.Qi) \/ Le(params.D, Zero)) => points = <<>>

\* C17, its case: a forecast of 180 days from tMax = 30 that ends at t = 210
C17_ForecastTo210 ==
    /\ view.hasData
    /\ "oil" \in DOMAIN view.phaseParams
    /\ Len(view.allForecastPoints["oil"]) = 51
    /\ view.allForecastPoints["oil"][51].t = Num(210)

\* C18: the forecastAverage reported for a phase equals
\* calculate60DayAverage at tMax, the trapezoidal-rule average of the rate
\* over [tMax, tMax + 60] with 20 subintervals.
C18_AverageIsTrapezoid ==
    \A phase \in DOMAIN view.phaseParams :
        view.forecastAverage[phase] =
            calculate60DayAverage(view.phaseParams[phase].Qi,
                                  view.phaseParams[phase].b,
                                  view.phaseParams[phase].D, view.tMax)

-----------------------------------------------------------------------------
(* Properties of the fitter (SpecFit) *)

\* C19: for every series of at least three points, the error the fitter
\* returns is at most the mean squared error of the parameters that
\* estimateDeclineParams gives for the same series.
C19_FitNoWorseThanEstimate ==
    (fitter.pc = "done" /\ Len(fitter.dataPoints) >= 3)
    => Le(fitter.result.error,
          calculateError(SortByT(fitter.dataPoints),
                         estimateDeclineParams(fitter.dataPoints)))

\* The errors of the 275 candidates of the grid, in the order of enumeration
GridErrors(points, guess) ==
    [k \in 1..GridSize |-> calculateError(points, GridParams(guess, k))]

\* The first of the candidates that achieves the minimum of the errors
FirstMinimum(errors) ==
    CHOOSE k \in DOMAIN errors :
        /\ \A j \in DOMAIN errors : Le(errors[k], errors[j])
        /\ \A j \in 1..(k - 1) : Lt(errors[k], errors[j])

\* C20 as stated: the parameters the fitter returns are those of the first
\* candidate, in the order b outer, D middle, Qi inner, that achieves the
\* minimum error over the grid.
C20_ResultIsFirstGridMinimum ==
    (fitter.pc = "done" /\ Len(fitter.dataPoints) >= 3)
    => LET errors == GridErrors(SortByT(fitter.dataPoints), fitter.guess)
           first  == FirstMinimum(errors)
           params == GridParams(fitter.guess, first)
       IN  fitter.result = [Qi |-> params.Qi, b |-> params.b, D |-> params.D,
                            error |-> errors[first]]

\* C20, amended: the fitter returns the guess it started from, with the
\* guess's error, unless some candidate of the grid has a strictly smaller
\* error than the guess; it then returns the first candidate, in the order
\* b outer, D middle, Qi inner, that achieves the minimum error over the
\* grid, and a later candidate with an equal error does not replace it.
C20_GuessOrFirstGridMinimum ==
    (fitter.pc = "done" /\ Len(fitter.dataPoints) >= 3)
    => LET points == SortByT(fitter.dataPoints)
           errors == GridErrors(points, fitter.guess)
           first  == FirstMinimum(errors)
           params == GridParams(fitter.guess, first)
           guessError == calculateError(points, fitter.guess)
       IN  IF Lt(errors[first], guessError)
           THEN fitter.result = [Qi |-> params.Qi, b |-> params.b,
                                 D |-> params.D, error |-> errors[first]]
           ELSE fitter.result = [Qi |-> fitter.guess.Qi, b |-> fitter.guess.b,
                                 D |-> fitter.guess.D, error |-> guessError]

\* C20, its case: three wells pooled at t = 0 with values 4, 4.4, 4.4, where
\* every candidate with Qi = 4.2 has the minimum error, less than the
\* guess's, and the fitter has returned the first of them
C20_TieAmongCandidates ==
    /\ fitter.pc = "done"
    /\ fitter.dataPoints = <<Pt(0, Num(4)), Pt(0, Frac(22, 5)), Pt(0, Frac(22, 5))>>
    /\ fitter.guess.Qi = Num(4)
    /\ fitter.result.Qi = Frac(21, 5)
    /\ fitter.result.b = Zero
    /\ fitter.result.D = Frac(1, 1000)

\* C21: a call on at least three points returns after exactly 275
\* evaluations of the grid, one for each b in {0, 0.3, 0.5, 0.7, 0.9}, each
\* of the 11 values of D from 0.001 to 0.5 and each Qi that is 0.90, 0.95,
\* 1.00, 1.05 or 1.10 times the guess's Qi.  Every step of a call in the grid
\* is either the next evaluation, which raises the count k of evaluations by
\* one, or the return, which is taken when, and only when, 275 evaluations
\* are done: the call cannot go on beyond them.
C21_Exactly275Evaluations ==
    [][/\ (fitter.pc = "grid" /\ fitter.k <= 275)
            => (/\ fitter'.pc = "grid"
                /\ fitter'.k = fitter.k + 1
                /\ fitter'.guess = fitter.guess)
       /\ (fitter.pc = "grid" /\ fitter.k > 275)
            => (/\ fitter'.pc = "done"
                /\ fitter.k = 275 + 1
                /\ {GridParams(fitter.guess, k) : k \in 1..(fitter.k - 1)} =
                      {[Qi |-> Mul(fitter.guess.Qi, Frac(pct, 100)),
                        b  |-> Frac(b, 10),
                        D  |-> Frac(10 + 499 * i, 10000)] :
                          pct \in {90, 95, 100, 105, 110},
                          b \in {0, 3, 5, 7, 9}, i \in 0..10}
                /\ Cardinality({GridParams(fitter.guess, k) :
                                   k \in 1..(fitter.k - 1)}) = 275)
       /\ (fitter.pc = "idle" /\ fitter'.pc = "grid") => fitter'.k = 1]_vars

\* C21, its case: a call on three points has returned
C21_ReturnedFromGrid ==
    /\ fitter.pc = "done"
    /\ Len(fitter.dataPoints) = 3
    /\ fitter.k > 1

\* The series of the wells pooled: each well's points with the well's
\* earliest t taken off, the wells one after the other
RECURSIVE PooledSeries(_)
PooledSeries(wells) ==
    IF wells = <<>> THEN <<>>
    ELSE LET well  == wells[Len(wells)]
             first == CHOOSE i \in 1..Len(well) :
                          \A j \in 1..Len(well) : Le(well[i].t, well[j].t)
         IN  PooledSeries(SubSeq(wells, 1, Len(wells) - 1))
                 \o [i \in 1..Len(well) |->
                        [t |-> Sub(well[i].t, well[first].t), value |-> well[i].value]]

\* What the fitter returns for a series and no initial guess: the fallback
\* below three points, else the guess or the first minimum of the grid
FitOf(dataPoints) ==
    IF Len(dataPoints) < 3 THEN FitFallback
    ELSE LET points == SortByT(dataPoints)
             guess  == FitGuess(points, NoGuess)
             errors == GridErrors(points, guess)
             first  == FirstMinimum(errors)
             params == GridParams(guess, first)
             guessError == calculateError(points, guess)
         IN  IF Lt(errors[first], guessError)
             THEN [Qi |-> params.Qi, b |-> params.b, D |-> params.D,
                   error |-> errors[first]]
             ELSE [Qi |-> guess.Qi, b |-> guess.b, D |-> guess.D,
                   error |-> guessError]

\* C22: what generateTypeCurve returns is what the fitter returns on the
\* pooled series of the wells, each shifted so that its earliest t is 0; a
\* well without points adds nothing to the pool.
C22_TypeCurveIsFitOfPool ==
    (fitter.caller = "generateTypeCurve" /\ fitter.pc = "done")
    => fitter.result = FitOf(PooledSeries(fitter.wells))

-----------------------------------------------------------------------------
(* Properties of the percentage error (SpecUtil) *)

\* The sum of term over the indices of a set
RECURSIVE SumOver(_, _)
SumOver(indices, term) ==
    IF indices = {} THEN Zero
    ELSE LET i == CHOOSE j \in indices : TRUE
         IN  Add(term[i], SumOver(indices \ {i}, term))

\* C23: calculatePercentageError returns +Infinity when an array is missing,
\* when the two differ in length and when no pair has an actual above 0;
\* otherwise it returns the mean of |forecast - actual| / actual * 100 over
\* the pairs whose actual is above 0.  (Every call returns a number: the
\* function has no statement that throws on these arguments.)
C23_MeanOverPositiveActuals ==
    util.fn = "calculatePercentageError"
    => LET a == util.actuals.items
           f == util.forecast.items
           positive == {i \in 1..Len(a) : a[i][1] > 0}
           percent == [i \in positive |->
                          Mul(MathAbs(Div(Sub(f[i], a[i]), a[i])), Num(100))]
       IN  IF ~util.actuals.given \/ ~util.forecast.given
              \/ Len(a) # Len(f) \/ positive = {}
           THEN util.result = PInf
           ELSE util.result = Div(SumOver(positive, percent), Num(Cardinality(positive)))

\* C23, its case: actuals [100, 200] and forecasts [110, 180] give 10
C23_TenPercent ==
    /\ util.fn = "calculatePercentageError"
    /\ util.actuals = Array(<<Num(100), Num(200)>>)
    /\ util.forecast = Array(<<Num(110), Num(180)>>)
    /\ util.result = Num(10)

-----------------------------------------------------------------------------
(* Further properties of the chart (Spec) *)

\* C24: every step of resetAutoFit ends with auto-fit enabled, no session in
\* dragStartRef, no key and no gesture, and with the parameters of every
\* phase equal to the auto-fit estimate of the phase's current series (no
\* parameters when there is no data).
C24_ResetRestoresAutoFit ==
    [][resetAutoFit =>
          /\ autoFitEnabled'
          /\ dragStartRef' = <<>>
          /\ gesture' = <<>>
          /\ activeKey' = NoKey
          /\ phaseParams' = IF phaseData'.rows THEN AutoFitAll(phaseData'.series)
                            ELSE <<>>]_vars

\* C24, its case: a session was started on a curve, and the chart has been
\* reset since, with data on display
C24_ResetAfterDrag ==
    /\ sessions >= 1
    /\ dragged = {}
    /\ autoFitEnabled
    /\ press = <<>>
    /\ phaseData.rows
    /\ phaseParams = AutoFitAll(phaseData.series)

\* The field of the parameters that a key selects
FieldOf(key) == CASE key = "d" -> "D" [] key = "q" -> "Qi" [] key = "b" -> "b"

\* C25: while a press is in progress, after any number of applied updates,
\* the parameters are those the press found, with the one parameter of the
\* gesture's phase that the gesture's key selects set to the adjustment of
\* the session's value by the distance between the last pointer position and
\* the session's: they depend on the session and the current position only.
C25_UpdateFromOriginOnly ==
    (/\ press # <<>>
     /\ press[1].moved # NoMove
     /\ gesture # <<>>
     /\ dragStartRef # <<>>)
    => LET key   == gesture[1].activeKey
           phase == gesture[1].activePhase
           dy    == Sub(Num(press[1].moved), Num(dragStartRef[1].y))
           value == getAdjustmentForDrag(key, dy,
                                         dragStartRef[1].params[FieldOf(key)])
           found == press[1].params
       IN  IF phase \in DOMAIN found
           THEN phaseParams =
                   [found EXCEPT ![phase] = [@ EXCEPT ![FieldOf(key)] = value]]
           ELSE phaseParams = found

\* C25, its case: an update has been applied with the pointer away from the
\* session's position, and the parameters differ from those the press found
C25_UpdatedAwayFromOrigin ==
    /\ press # <<>>
    /\ press[1].moved # NoMove
    /\ dragStartRef # <<>>
    /\ gesture # <<>>
    /\ press[1].moved # dragStartRef[1].y
    /\ phaseParams # press[1].params

C28_OneTargetPerGesture ==
    press # <<>>
    => /\ DOMAIN phaseParams = DOMAIN press[1].params
       /\ Cardinality({<<p, field>> \in (DOMAIN phaseParams) \X {"Qi", "b", "D"} :
                          phaseParams[p][field] # press[1].params[p][field]}) <= 1

\* C28, its case: an update has been applied in a gesture during which
\* another key than the gesture's was pressed
C28_OtherKeyDuringGesture ==
    /\ press # <<>>
    /\ press[1].moved # NoMove
    /\ gesture # <<>>
    /\ activeKey # NoKey
    /\ activeKey # gesture[1].activeKey
    /\ phaseParams # press[1].params

-----------------------------------------------------------------------------
(* Properties of the date slider (SpecApp) *)

\* C26: a step that moves the slider leaves filterRange as it is, and the
\* step that releases the thumb makes filterRange equal to sliderRange.
C26_WindowFollowsOnRelease ==
    [][/\ (app.held /\ app'.held) => app'.filterRange = app.filterRange
       /\ (app.held /\ ~app'.held) => app'.filterRange = app'.sliderRange]_vars

-----------------------------------------------------------------------------
(* Properties of the chart's auto-fit and emission *)

\* C29: once a session has been started on some phase, a step that changes
\* the data still gives every phase on which no session was started the
\* auto-fit estimate of its new series.
C29_OtherPhasesStillAutoFit ==
    [][(dragged # {} /\ dragged' = dragged /\ phaseData' # phaseData /\ phaseData'.rows)
          => \A q \in DOMAIN phaseData'.series \ dragged :
                /\ q \in DOMAIN phaseParams'
                /\ phaseParams'[q] = AutoFitPhase(phaseData'.series[q])]_vars

\* The payload of line 314 at the render v
Payload(v) == NewParams(v.phaseParams, v.calculatedEUR, v.forecastAverage)

\* C30 (as stated): a step that invokes onParametersCalculated passes a
\* payload different from the one of the invocation before it, and a step
\* that changes the payload invokes it with the new payload.
C30_NeverTwiceEqualPayloads ==
    [][/\ view'.calls # view.calls
           => view'.lastOnParamsCallRef # view.lastOnParamsCallRef
       /\ Payload(view') # Payload(view)
           => /\ view'.calls # view.calls
              /\ view'.lastOnParamsCallRef = Payload(view')]_vars

\* C30 (amended): a step of one and the same chart that invokes
\* onParametersCalculated passes a payload whose JSON text differs from the
\* one of the invocation before it, a step that changes the JSON text of
\* the payload invokes it, and after every step the payload last passed has
\* the JSON text of the current payload.
C30_NeverTwiceEqualWhileMounted ==
    [][/\ (view'.calls # view.calls /\ view'.chartKey = view.chartKey)
           => JsonOutput(view'.lastOnParamsCallRef)
                  # JsonOutput(view.lastOnParamsCallRef)
       /\ JsonOutput(Payload(view')) # JsonOutput(Payload(view))
           => view'.calls # view.calls
       /\ JsonOutput(view'.lastOnParamsCallRef) = JsonOutput(Payload(view'))]_vars

\* A chart mounted by the Reset Autofit button has emitted parameters
C30_EmittedAfterRemount ==
    /\ view.chartKey # FirstRender.chartKey
    /\ view.lastOnParamsCallRef.phaseParams # <<>>
    /\ view.tMax # Zero

====
